---- MODULE Spec2Model ----
(***************************************************************************)
(* Model of src/chat/message.rs of swindon: the tangle request decoder     *)
(* (decode_message, Request::validate), get_active, and the serializers    *)
(* of the backend frames (Auth, Call, MetaWithExtra).                      *)
(*                                                                         *)
(* Every operation is a pure function of its arguments.  A behaviour picks *)
(* the arguments of one call in Init and the action of that call applies   *)
(* the function and stores what it returns (or what it hands to the        *)
(* serializer) in ret.                                                     *)
(*                                                                         *)
(* A String that the code inspects character by character (the method) is  *)
(* a sequence of Unicode code points; a Map is the sequence of its (key,   *)
(* value) entries in the order Map::iter yields them, keys unique.         *)
(***************************************************************************)
EXTENDS Integers, Sequences, FiniteSets, TLC

VARIABLES call, pc, s, meta, connection_id, args, kwargs, extra, auth_data, ret

vars == <<call, pc, s, meta, connection_id, args, kwargs, extra, auth_data, ret>>

(***************************************************************************)
(* Bounds of the model.                                                    *)
(***************************************************************************)
MaxMethodLen == 2      \* longest method built freely from Alphabet
MaxArity == 5          \* longest top-level array of samples of each kind
MaxMetaLen == 3        \* most entries of a Meta given to a serializer
MaxExtraLen == 2       \* most entries of a map-shaped extra

(***************************************************************************)
(* Generic helpers.                                                        *)
(***************************************************************************)
Range(f) == {f[i] : i \in DOMAIN f}

SeqsUpTo(S, n) == UNION {[1..k -> S] : k \in 0..n}

IsPrefix(p, q) == Len(p) <= Len(q) /\ SubSeq(q, 1, Len(p)) = p

(***************************************************************************)
(* serde_json::Value.  One record shape for every variant:                 *)
(*   kind  the variant (Null, Bool, Number, String, Array, Object)         *)
(*   b     the payload of Bool                                             *)
(*   n     the representation of a Number (PosInt, NegInt, Float)          *)
(*   num   the integer part of a Number, frac its tenths (Float only)      *)
(*   str   the payload of String, a sequence of code points                *)
(*   arr   the payload of Array, obj the entries of Object                 *)
(***************************************************************************)
Blank == [kind |-> "Null", b |-> FALSE, n |-> "", num |-> 0, frac |-> 0,
          str |-> <<>>, arr |-> <<>>, obj |-> <<>>]

JNull == Blank

JBool(x) == [Blank EXCEPT !.kind = "Bool", !.b = x]

JString(x) == [Blank EXCEPT !.kind = "String", !.str = x]

JArray(x) == [Blank EXCEPT !.kind = "Array", !.arr = x]

JObject(x) == [Blank EXCEPT !.kind = "Object", !.obj = x]

\* Number::from(i64): a negative value is stored as NegInt, any other as PosInt
From_i64(i) ==
    [Blank EXCEPT !.kind = "Number",
                  !.n = IF i < 0 THEN "NegInt" ELSE "PosInt",
                  !.num = i]

\* Number::from_f64: always stored as Float, also when the value is integral
From_f64(i, tenths) ==
    [Blank EXCEPT !.kind = "Number", !.n = "Float", !.num = i, !.frac = tenths]

None == [some |-> FALSE, val |-> 0]

Some(x) == [some |-> TRUE, val |-> x]

\* as_u64 that takes a Float without a fraction for an integer
as_u64_integral(v) ==
    IF v.kind = "Number" /\ v.num >= 0 /\ v.frac = 0
    THEN Some(v.num) ELSE None

\* Value::as_u64: Some(n) only for a Number stored as PosInt
as_u64(v) ==
    IF v.kind = "Number" /\ v.n = "PosInt" THEN Some(v.num) ELSE None

(***************************************************************************)
(* serde_json::Map.                                                        *)
(***************************************************************************)
Keys(m) == {m[i][1] : i \in DOMAIN m}

HasKey(m, k) == k \in Keys(m)

\* Map::get
Get(m, k) ==
    IF HasKey(m, k)
    THEN Some((m[CHOOSE i \in DOMAIN m : m[i][1] = k])[2])
    ELSE None

\* Map::insert: a key already present keeps its place and takes the new value
Insert(m, k, v) ==
    IF HasKey(m, k)
    THEN [i \in DOMAIN m |-> IF m[i][1] = k THEN <<k, v>> ELSE m[i]]
    ELSE Append(m, <<k, v>>)

\* the Map a JSON object's members deserialize to: inserted one by one
RECURSIVE FromEntries(_)
FromEntries(es) ==
    IF es = <<>> THEN <<>>
    ELSE Insert(FromEntries(SubSeq(es, 1, Len(es) - 1)),
                es[Len(es)][1], es[Len(es)][2])

UniqueKeys(m) == \A i, j \in DOMAIN m : m[i][1] = m[j][1] => i = j

(***************************************************************************)
(* Characters, as code points below 256.                                   *)
(***************************************************************************)
\* char::is_ascii
is_ascii(c) == c <= 127

\* char::is_alphanumeric: Unicode Alphabetic or Numeric, here for Latin-1
is_alphanumeric(c) ==
    \/ c \in 48..57 \/ c \in 65..90 \/ c \in 97..122
    \/ c \in {170, 181, 186} \/ c \in 192..214 \/ c \in 216..246
    \/ c \in 248..255
    \/ c \in {178, 179, 185} \/ c \in 188..190

\* the literal "tangle."
TanglePrefix == <<116, 97, 110, 103, 108, 101, 46>>

\* the literal "123"
Str123 == <<49, 50, 51>>

\* the literal "321"
Str321 == <<51, 50, 49>>

(***************************************************************************)
(* serde_json::Error, by what its Display starts with:                     *)
(*   syntax          msg is the syntax error ("trailing characters", ...)  *)
(*   invalid type    unexpected names the value met, expected the type     *)
(*                   that was asked for                                    *)
(*   invalid length  len is the number of elements that were present       *)
(*   custom          msg is the text given to Error::custom                *)
(***************************************************************************)
Err(c, u, e, l, m) ==
    [ok |-> FALSE, category |-> c, unexpected |-> u, expected |-> e,
     len |-> l, msg |-> m]

SyntaxError(m) == Err("syntax", "", "", 0, m)

InvalidType(u, e) == Err("invalid type", u, e, 0, "")

InvalidLength(l, e) == Err("invalid length", "", e, l, "")

Custom(m) == Err("custom", "", "", 0, m)

Ok(x) == [ok |-> TRUE, value |-> x]

\* de::Unexpected of a Value, as serde_json reports it
Unexpected(v) ==
    CASE v.kind = "Null" -> "unit value"
      [] v.kind = "Bool" -> "boolean"
      [] v.kind = "Number" -> IF v.n = "Float" THEN "floating point"
                              ELSE "integer"
      [] v.kind = "String" -> "string"
      [] v.kind = "Array" -> "sequence"
      [] v.kind = "Object" -> "map"

(***************************************************************************)
(* #[derive(Deserialize)] struct Request(String, Meta, Args, Kwargs),      *)
(* read by serde_json::from_str.  The text s is either not a JSON document *)
(* (s.syntax names the syntax error met before any element is read) or the *)
(* document s.doc.                                                         *)
(***************************************************************************)
\* the kind of JSON value each field of Request deserializes from
FieldKind == <<"String", "Object", "Array", "Object">>

\* what the field's Visitor says it expects
FieldExpecting == <<"a string", "a map", "a sequence", "a map">>

\* FieldValue with the positional arguments dropped
FieldValue_no_args(i, v) ==
    CASE i = 1 -> v.str
      [] i = 2 -> FromEntries(v.obj)
      [] i = 3 -> <<>>
      [] i = 4 -> FromEntries(v.obj)

\* the field's value: String, Map<String, Json>, Vec<Json>, Map<String, Json>
FieldValue(i, v) ==
    CASE i = 1 -> v.str
      [] i = 2 -> FromEntries(v.obj)
      [] i = 3 -> v.arr
      [] i = 4 -> FromEntries(v.obj)

\* visit_seq with the number of elements checked before any of them is read
RECURSIVE visit_seq_arity_first(_, _, _)
visit_seq_arity_first(elems, i, fields) ==
    IF Len(elems) # 4
    THEN InvalidLength(Len(elems), "tuple struct Request with 4 elements")
    ELSE IF i > 4 THEN Ok(fields)
    ELSE IF elems[i].kind # FieldKind[i]
    THEN InvalidType(Unexpected(elems[i]), FieldExpecting[i])
    ELSE visit_seq_arity_first(elems, i + 1,
                               Append(fields, FieldValue(i, elems[i])))

\* the derived Visitor::visit_seq: the fields are read in order; a missing
\* element is an invalid length, an element of another kind an invalid type
RECURSIVE visit_seq(_, _, _)
visit_seq(elems, i, fields) ==
    IF i > 4 THEN Ok(fields)
    ELSE IF i > Len(elems)
    THEN InvalidLength(i - 1, "tuple struct Request with 4 elements")
    ELSE IF elems[i].kind # FieldKind[i]
    THEN InvalidType(Unexpected(elems[i]), FieldExpecting[i])
    ELSE visit_seq(elems, i + 1, Append(fields, FieldValue(i, elems[i])))

\* from_str with the elements after the fourth ignored
from_str_ignore_rest(text) ==
    IF text.syntax # "ok" THEN SyntaxError(text.syntax)
    ELSE IF text.doc.kind # "Array"
    THEN InvalidType(Unexpected(text.doc), "tuple struct Request")
    ELSE visit_seq(text.doc.arr, 1, <<>>)

\* serde_json::from_str::<Request>: a value that is not an array is an
\* invalid type; an error of visit_seq is reported before the elements that
\* follow it are looked at; elements left after the fourth are a syntax error
from_str(text) ==
    IF text.syntax # "ok" THEN SyntaxError(text.syntax)
    ELSE IF text.doc.kind # "Array"
    THEN InvalidType(Unexpected(text.doc), "tuple struct Request")
    ELSE LET r == visit_seq(text.doc.arr, 1, <<>>)
         IN IF ~r.ok THEN r
            ELSE IF Len(text.doc.arr) > 4
            THEN SyntaxError("trailing characters")
            ELSE r

\* validate without the check of the reserved prefix
validate_no_prefix(req) ==
    LET method == req[1]
    IN IF Len(method) = 0 THEN Custom("invalid method")
       ELSE IF ~ \A i \in DOMAIN method :
                   is_ascii(method[i]) /\
                   (is_alphanumeric(method[i]) \/ method[i] = 45
                    \/ method[i] = 95 \/ method[i] = 46)
       THEN Custom("invalid method")
       ELSE LET rid == Get(req[2], "request_id")
            IN IF rid.some /\ rid.val.kind = "Number" THEN Ok(<<>>)
               ELSE IF rid.some /\ rid.val.kind = "String"
                       /\ Len(rid.val.str) > 0 THEN Ok(<<>>)
               ELSE Custom("invalid request_id")

\* validate with request_id checked before the method
validate_request_id_first(req) ==
    LET method == req[1]
        rid == Get(req[2], "request_id")
    IN IF ~(\/ rid.some /\ rid.val.kind = "Number"
            \/ rid.some /\ rid.val.kind = "String" /\ Len(rid.val.str) > 0)
       THEN Custom("invalid request_id")
       ELSE IF Len(method) = 0 THEN Custom("invalid method")
       ELSE IF IsPrefix(TanglePrefix, method) THEN Custom("invalid method")
       ELSE IF ~ \A i \in DOMAIN method :
                   is_ascii(method[i]) /\
                   (is_alphanumeric(method[i]) \/ method[i] = 45
                    \/ method[i] = 95 \/ method[i] = 46)
       THEN Custom("invalid method")
       ELSE Ok(<<>>)

\* Request::validate
validate(req) ==
    LET method == req[1]
    IN IF Len(method) = 0 THEN Custom("invalid method")
       ELSE IF IsPrefix(TanglePrefix, method) THEN Custom("invalid method")
       ELSE IF ~ \A i \in DOMAIN method :
                   is_ascii(method[i]) /\
                   (is_alphanumeric(method[i]) \/ method[i] = 45
                    \/ method[i] = 95 \/ method[i] = 46)
       THEN Custom("invalid method")
       ELSE LET rid == Get(req[2], "request_id")
            IN IF rid.some /\ rid.val.kind = "Number" THEN Ok(<<>>)
               ELSE IF rid.some /\ rid.val.kind = "String"
                       /\ Len(rid.val.str) > 0 THEN Ok(<<>>)
               ELSE Custom("invalid request_id")

\* decode_message
decode_message(text) ==
    LET res == from_str(text)
    IN IF ~res.ok THEN res
       ELSE LET v == validate(res.value)
            IN IF ~v.ok THEN v ELSE Ok(res.value)

\* get_active
get_active(m) ==
    LET v == Get(m, "active")
    IN IF v.some THEN as_u64(v.val) ELSE None

(***************************************************************************)
(* Serializers.  What a serializer is handed is recorded as it is handed:  *)
(* a tuple is the sequence of its elements, a map the sequence of its      *)
(* entries in the order they are emitted.                                  *)
(***************************************************************************)
\* Option<String> with None serialized as the empty string
SerializeOption_empty(o) == IF o.some THEN JString(o.val) ELSE JString(<<>>)

\* Serialize for Option<String>: None is a null, Some(x) the string
SerializeOption(o) == IF o.some THEN JString(o.val) ELSE JNull

\* #[derive(Serialize)] struct AuthData: the fields in declaration order
AuthData_serialize(a) ==
    << <<"http_cookie", SerializeOption(a.http_cookie)>>,
       <<"http_authorization", SerializeOption(a.http_authorization)>>,
       <<"url_querystring", JString(a.url_querystring)>> >>

\* Serialize for Auth
Auth_serialize(cid, a) ==
    << JObject(<< <<"connection_id", JString(cid)>> >>),
       JArray(<<>>),
       AuthData_serialize(a) >>

\* MetaWithExtra with the entries of meta not filtered
MetaWithExtra_no_filter(m, e) ==
    IF e.kind = "Object" THEN e.obj \o m ELSE m

\* MetaWithExtra with meta taking precedence over extra
MetaWithExtra_meta_wins(m, e) ==
    IF e.kind = "Object"
    THEN SelectSeq(e.obj, LAMBDA en : ~Get(m, en[1]).some) \o m
    ELSE m

\* MetaWithExtra that emits the elements of an array extra as well
MetaWithExtra_array_extra(m, e) ==
    IF e.kind = "Object"
    THEN e.obj \o SelectSeq(m, LAMBDA en : ~Get(e.obj, en[1]).some)
    ELSE IF e.kind = "Array" /\ e.arr # <<>> /\ e.arr[1].kind = "Object"
    THEN e.arr[1].obj \o m
    ELSE m

\* Serialize for MetaWithExtra
MetaWithExtra_serialize(m, e) ==
    IF e.kind = "Object"
    THEN e.obj \o SelectSeq(m, LAMBDA en : ~Get(e.obj, en[1]).some)
    ELSE m

\* Serialize for Call
Call_serialize(m, cid, a, kw) ==
    << MetaWithExtra_serialize(m,
           JObject(<< <<"connection_id", JString(cid)>> >>)),
       a,
       kw >>

(***************************************************************************)
(* The arguments the calls are tried on.                                   *)
(***************************************************************************)
\* 'a' 'Z' '7' '-' '_' '.' '/' ' ' and e-acute (alphanumeric, not ASCII)
Alphabet == {97, 90, 55, 45, 95, 46, 47, 32, 233}

\* "tangle", "Tangle.", "tangle_", "tangle.auth", " tangle.auth"
TangleLike ==
    { SubSeq(TanglePrefix, 1, 6),
      <<84>> \o SubSeq(TanglePrefix, 2, 7),
      SubSeq(TanglePrefix, 1, 6) \o <<95>>,
      TanglePrefix \o <<97, 117, 116, 104>>,
      <<32>> \o TanglePrefix \o <<97, 117, 116, 104>> }

Methods ==
    SeqsUpTo(Alphabet, MaxMethodLen)
    \cup {TanglePrefix \o x : x \in SeqsUpTo(Alphabet, 1)}
    \cup TangleLike

\* the values a request_id is tried with
RequestIds ==
    { JNull, JBool(TRUE), JBool(FALSE), From_i64(123), From_i64(-1),
      From_f64(1, 5), JString(<<>>), JString(Str123), JArray(<<>>),
      JArray(<<From_i64(1)>>), JObject(<<>>),
      JObject(<< <<"request_id", From_i64(1)>> >>) }

\* the members of the meta object as written in the text; a key may be
\* written twice
MetaMembers ==
    { <<>>, << <<"active", From_i64(1)>> >>,
      << <<"Request_id", From_i64(123)>> >> }
    \cup { << <<"request_id", v>> >> : v \in RequestIds }
    \cup { << <<"active", JBool(TRUE)>>, <<"request_id", v>> >> :
             v \in {JNull, JString(Str123)} }
    \cup { << <<"request_id", v>>, <<"request_id", w>> >> :
             v, w \in {From_i64(123), JString(<<>>)} }

ArgsSamples == { <<>>, <<JString(Str123), JNull>> }

KwargsSamples == { <<>>, << <<"room", From_i64(123)>> >> }

\* args and kwargs as written in a frame; a key of kwargs may be written twice
Payloads ==
    { <<JArray(<<>>), JObject(<<>>)>>,
      <<JArray(<<JString(Str123), JNull>>),
        JObject(<< <<"room", From_i64(123)>> >>)>>,
      <<JArray(<<JArray(<<>>)>>),
        JObject(<< <<"room", JNull>>, <<"room", From_i64(1)>> >>)>> }

\* one value of each kind
KindSamples ==
    { JNull, JBool(TRUE), From_i64(1), JString(<<49>>), JArray(<<>>),
      JObject(<<>>) }

Text(v) == [syntax |-> "ok", doc |-> v]

\* the texts "" and "[invalid json"
Malformed ==
    { [syntax |-> e, doc |-> JNull] :
        e \in {"EOF while parsing a value", "expected value"} }

\* frames of four elements of the required kinds: every method with every
\* meta, and every meta with every payload
Frames ==
    { Text(JArray(<<JString(m), JObject(me), JArray(<<>>), JObject(<<>>)>>)) :
        m \in Methods, me \in MetaMembers }
    \cup { Text(JArray(<<JString(m), JObject(me), p[1], p[2]>>)) :
              m \in {<<>>, <<97, 46, 90>>, TanglePrefix} \cup TangleLike,
              me \in MetaMembers, p \in Payloads }

\* documents of any shape: a value of each kind, arrays of them
Shapes ==
    { Text(v) : v \in KindSamples }
    \cup { Text(JArray(a)) :
              a \in SeqsUpTo(KindSamples \ {JNull, JBool(TRUE)}, MaxArity) }

\* a frame of the required kinds that passes validation
GoodFrame ==
    <<JString(<<97>>), JObject(<< <<"request_id", From_i64(1)>> >>),
      JArray(<<>>), JObject(<<>>)>>

\* that frame with elements missing or added
Resized ==
    { Text(JArray(SubSeq(GoodFrame, 1, k))) : k \in 0..4 }
    \cup { Text(JArray(GoodFrame \o [i \in 1..k |-> x])) :
              k \in 1..(MaxArity - 3), x \in KindSamples }

\* frames with one element replaced by a value of each kind
Miskinded ==
    { Text(JArray([f EXCEPT ![i] = x])) :
        i \in 1..4, x \in KindSamples,
        f \in { <<JString(m), JObject(me), JArray(<<>>), JObject(<<>>)>> :
                   m \in {<<>>, <<97>>, TanglePrefix},
                   me \in {<<>>, << <<"request_id", From_i64(1)>> >>} } }

DecodeInputs ==
    Malformed \cup Frames \cup Shapes \cup Resized \cup Miskinded

\* the keys and values the Maps given to the serializers are made of
MetaKeys == {"connection_id", "request_id", "active", "room"}

MetaValues == {JString(Str123), JString(Str321)}

IsMap(m) == UniqueKeys(m)

MapsUpTo(V, n) ==
    { m \in SeqsUpTo(MetaKeys \X V, n) : IsMap(m) }

Metas == MapsUpTo(MetaValues, MaxMetaLen)

Extras ==
    { JObject(m) : m \in MapsUpTo({JString(Str321)}, MaxExtraLen) }
    \cup { JNull, JBool(TRUE), From_i64(1), JString(Str123),
           JArray(<<JString(Str123)>>),
           JArray(<< JObject(<< <<"connection_id", JString(Str123)>> >>) >>) }

ConnectionIds == {Str123, Str321}

\* the values the key "active" is tried with
Actives ==
    { JNull, JString(<<>>), JString(Str123), JBool(TRUE), JBool(FALSE),
      From_i64(123), From_i64(0), From_i64(-123), From_f64(123, 0),
      From_f64(0, 5), JArray(<<From_i64(1)>>), JObject(<<>>) }

ActiveMetas ==
    { <<>>, << <<"request_id", From_i64(123)>> >>,
      << <<"Active", From_i64(123)>> >> }
    \cup { << <<"active", v>> >> : v \in Actives }
    \cup { << <<"request_id", From_i64(7)>>, <<"active", v>> >> :
             v \in Actives }

NoneStr == [some |-> FALSE, val |-> <<>>]

OptionStrs == { NoneStr, Some(<<>>), Some(Str123) }

AuthDatas ==
    [ http_cookie : OptionStrs, http_authorization : OptionStrs,
      url_querystring : {<<>>, Str321} ]

(***************************************************************************)
(* The state machine: the arguments of one call are chosen, the call is    *)
(* made, its result is in ret.                                             *)
(***************************************************************************)
NoAuthData ==
    [http_cookie |-> NoneStr, http_authorization |-> NoneStr,
     url_querystring |-> <<>>]

Idle ==
    /\ pc = "call"
    /\ ret = <<>>

InitDecode ==
    /\ call = "decode_message" /\ s \in DecodeInputs
    /\ meta = <<>> /\ connection_id = <<>> /\ args = <<>> /\ kwargs = <<>>
    /\ extra = JNull /\ auth_data = NoAuthData

InitGetActive ==
    /\ call = "get_active" /\ meta \in ActiveMetas
    /\ s = Text(JNull) /\ connection_id = <<>> /\ args = <<>>
    /\ kwargs = <<>> /\ extra = JNull /\ auth_data = NoAuthData

InitAuth ==
    /\ call = "Auth" /\ connection_id \in ConnectionIds
    /\ auth_data \in AuthDatas
    /\ s = Text(JNull) /\ meta = <<>> /\ args = <<>> /\ kwargs = <<>>
    /\ extra = JNull

InitCall ==
    /\ call = "Call" /\ meta \in Metas /\ connection_id \in ConnectionIds
    /\ args \in ArgsSamples /\ kwargs \in KwargsSamples
    /\ s = Text(JNull) /\ extra = JNull /\ auth_data = NoAuthData

InitMetaWithExtra ==
    /\ call = "MetaWithExtra" /\ meta \in Metas /\ extra \in Extras
    /\ s = Text(JNull) /\ connection_id = <<>> /\ args = <<>>
    /\ kwargs = <<>> /\ auth_data = NoAuthData

Init ==
    /\ Idle
    /\ \/ InitDecode
       \/ InitGetActive
       \/ InitAuth
       \/ InitCall
       \/ InitMetaWithExtra

Return(v) ==
    /\ pc' = "done"
    /\ ret' = v
    /\ UNCHANGED <<call, s, meta, connection_id, args, kwargs, extra,
                   auth_data>>

DecodeMessage ==
    /\ pc = "call" /\ call = "decode_message"
    /\ Return(decode_message(s))

GetActive ==
    /\ pc = "call" /\ call = "get_active"
    /\ Return(get_active(meta))

SerializeAuth ==
    /\ pc = "call" /\ call = "Auth"
    /\ Return(Auth_serialize(connection_id, auth_data))

SerializeCall ==
    /\ pc = "call" /\ call = "Call"
    /\ Return(Call_serialize(meta, connection_id, args, kwargs))

SerializeMetaWithExtra ==
    /\ pc = "call" /\ call = "MetaWithExtra"
    /\ Return(MetaWithExtra_serialize(meta, extra))

Next ==
    \/ DecodeMessage
    \/ GetActive
    \/ SerializeAuth
    \/ SerializeCall
    \/ SerializeMetaWithExtra

Spec == Init /\ [][Next]_vars

Done(c) == pc = "done" /\ call = c

(***************************************************************************)
(* Properties of decode_message.                                           *)
(***************************************************************************)
\* the characters of [A-Za-z0-9._-]
MethodChars == (48..57) \cup (65..90) \cup (97..122) \cup {45, 46, 95}

ValidMethod(m) ==
    /\ m # <<>>
    /\ \A i \in DOMAIN m : m[i] \in MethodChars
    /\ ~(Len(m) >= 7 /\ \A i \in 1..7 : m[i] = TanglePrefix[i])

\* a value that is a Number or a non-empty String
ValidRequestId(v) ==
    \/ v.kind = "Number"
    \/ v.kind = "String" /\ v.str # <<>>

\* the document of s is an array
IsArrayDoc == s.syntax = "ok" /\ s.doc.kind = "Array"

Elems == s.doc.arr

KindOk(i) == Elems[i].kind = <<"String", "Object", "Array", "Object">>[i]

\* the document of s is an array of a String, a Map, a Sequence and a Map
IsFrame == IsArrayDoc /\ Len(Elems) = 4 /\ \A i \in 1..4 : KindOk(i)

\* the members written for key k in an object, in the order written
Written(members, k) == SelectSeq(members, LAMBDA en : en[1] = k)

\* meta["request_id"] of a frame is a Number or a non-empty String: the key
\* is written, and the value written last for it is one
FrameRequestIdOk ==
    LET w == Written(Elems[2].obj, "request_id")
    IN w # <<>> /\ ValidRequestId(w[Len(w)][2])

InvalidMethod == [ok |-> FALSE, category |-> "custom", unexpected |-> "",
                  expected |-> "", len |-> 0, msg |-> "invalid method"]

InvalidRequestId == [InvalidMethod EXCEPT !.msg = "invalid request_id"]

\* C1: every tuple decode_message returns as Ok has a non-empty method made
\* of ASCII letters, digits, '-', '_' and '.' only that does not start with
\* "tangle.", and a meta with the key request_id whose value is a Number or
\* a non-empty String.
C1_DecodedRequestIsValid ==
    (Done("decode_message") /\ ret.ok) =>
        /\ ValidMethod(ret.value[1])
        /\ \E i \in DOMAIN ret.value[2] :
              /\ ret.value[2][i][1] = "request_id"
              /\ ValidRequestId(ret.value[2][i][2])

\* an accepted method that is one character short of the reserved prefix
C1_Witness ==
    /\ Done("decode_message") /\ ret.ok
    /\ ret.value[1] = SubSeq(TanglePrefix, 1, 6)
    /\ Len(Written(Elems[2].obj, "request_id")) = 2

\* C2: a frame [method, meta, args, kwargs] of a String, a Map, a Sequence
\* and a Map whose method matches ^[A-Za-z0-9._-]+$ and does not start with
\* "tangle." and whose meta has request_id as a Number or non-empty String
\* decodes to exactly that method, meta, args and kwargs.
C2_ValidFrameDecodesToItself ==
    (/\ Done("decode_message") /\ IsFrame
     /\ UniqueKeys(Elems[2].obj) /\ UniqueKeys(Elems[4].obj)
     /\ ValidMethod(Elems[1].str) /\ FrameRequestIdOk) =>
        /\ ret.ok
        /\ ret.value = <<Elems[1].str, Elems[2].obj, Elems[3].arr,
                         Elems[4].obj>>

\* such a frame with a second key in meta and with args and kwargs
C2_Witness ==
    /\ Done("decode_message") /\ IsFrame
    /\ UniqueKeys(Elems[2].obj) /\ UniqueKeys(Elems[4].obj)
    /\ ValidMethod(Elems[1].str) /\ FrameRequestIdOk
    /\ Len(Elems[2].obj) = 2 /\ Elems[3].arr # <<>> /\ Elems[4].obj # <<>>
    /\ 46 \in Range(Elems[1].str)
    /\ ret.ok

\* the first element that does not have the kind required at its position
FirstBadKind ==
    LET bad == {i \in 1..4 : i <= Len(Elems) /\ ~KindOk(i)}
    IN IF bad = {} THEN 0 ELSE CHOOSE i \in bad : \A j \in bad : i <= j

\* C3, as stated: a top-level array whose length is not 4 fails with an
\* arity error that reports the length (expected 4, got 0; expected 4, got 5).
C3_Original ==
    (Done("decode_message") /\ IsArrayDoc /\ Len(Elems) # 4) =>
        /\ ~ret.ok
        /\ ret.category = "invalid length"
        /\ ret.len = Len(Elems)

\* C3, amended: a top-level array whose length n is not 4 always fails; the
\* error is the type error of the first of its first four elements that has
\* the wrong kind if there is one, otherwise the arity error (invalid length
\* n, 4 elements expected) if n < 4, otherwise (n > 4) the syntax error
\* "trailing characters".
C3_WrongLengthFails ==
    (Done("decode_message") /\ IsArrayDoc /\ Len(Elems) # 4) =>
        /\ ~ret.ok
        /\ FirstBadKind # 0 => ret.category = "invalid type"
        /\ (FirstBadKind = 0 /\ Len(Elems) < 4) =>
              /\ ret.category = "invalid length"
              /\ ret.len = Len(Elems)
              /\ ret.expected = "tuple struct Request with 4 elements"
        /\ (FirstBadKind = 0 /\ Len(Elems) > 4) =>
              /\ ret.category = "syntax"
              /\ ret.msg = "trailing characters"

\* five elements, the first four of the required kinds and valid
C3_Witness ==
    /\ Done("decode_message") /\ IsArrayDoc /\ Len(Elems) = 5
    /\ FirstBadKind = 0
    /\ ~ret.ok

\* C4: the elements are checked in order against String, Map, Sequence,
\* Map: when the elements before position i have the required kinds and the
\* element at position i has another, decoding fails with the type error
\* that names the kind expected at i, and method and request_id are not
\* validated.
C4_FirstWrongKindIsReported ==
    (Done("decode_message") /\ IsArrayDoc /\ FirstBadKind # 0) =>
        /\ ~ret.ok
        /\ ret.category = "invalid type"
        /\ ret.expected =
              <<"a string", "a map", "a sequence", "a map">>[FirstBadKind]
        /\ ret.msg \notin {"invalid method", "invalid request_id"}

\* the last position has the wrong kind, after a method and a meta that
\* would not pass validation
C4_Witness ==
    /\ Done("decode_message") /\ IsArrayDoc /\ FirstBadKind = 4
    /\ ~ValidMethod(Elems[1].str)
    /\ ret.expected = "a map"

\* C5: on a frame of the required kinds the method is validated first and
\* request_id second: the error is "invalid method" whenever the method is
\* invalid, whatever request_id is, and "invalid request_id" exactly when
\* the method is valid and meta["request_id"] is absent, null, a boolean, an
\* array, an object or an empty string.
C5_MethodIsValidatedFirst ==
    (Done("decode_message") /\ IsFrame) =>
        LET w == Written(Elems[2].obj, "request_id")
            badId == \/ w = <<>>
                     \/ w[Len(w)][2].kind \in {"Null", "Bool", "Array",
                                               "Object"}
                     \/ w[Len(w)][2] = JString(<<>>)
        IN /\ ~ValidMethod(Elems[1].str) => ret = InvalidMethod
           /\ (ValidMethod(Elems[1].str) /\ badId) <=> ret = InvalidRequestId

\* method and request_id both invalid: the method is what is reported
C5_Witness ==
    /\ Done("decode_message") /\ IsFrame
    /\ IsPrefix(TanglePrefix, Elems[1].str)
    /\ ~FrameRequestIdOk
    /\ ret = InvalidMethod

(***************************************************************************)
(* Properties of the serializers and of get_active.                        *)
(***************************************************************************)
\* the entries of m whose key is not k, in the order of m
Without(m, k) == SelectSeq(m, LAMBDA en : en[1] # k)

\* b with the entry en put after its first p entries
InsertAt(b, p, en) == SubSeq(b, 1, p) \o <<en>> \o SubSeq(b, p + 1, Len(b))

\* the metas that differ from m at most in the presence, the place and the
\* value of key k
Variants(m, k) ==
    LET b == Without(m, k)
    IN {b} \cup { InsertAt(b, p, <<k, v>>) : p \in 0..Len(b),
                                              v \in MetaValues }

\* how many entries of the emitted map have key k
Count(out, k) == Cardinality({i \in DOMAIN out : out[i][1] = k})

\* C6: the frame of Call(meta, connection_id, args, kwargs) does not depend
\* on meta["connection_id"]: metas that differ only in the presence or value
\* of that key give the same frame; its first element has the key
\* connection_id exactly once, with the connection_id given, and has every
\* other entry of meta with its value.
C6_ConnectionIdCannotBeOverridden ==
    Done("Call") =>
        /\ \A m2 \in Variants(meta, "connection_id") :
              Call_serialize(m2, connection_id, args, kwargs) = ret
        /\ Count(ret[1], "connection_id") = 1
        /\ \A i \in DOMAIN ret[1] :
              ret[1][i][1] = "connection_id" =>
                  ret[1][i][2] = JString(connection_id)
        /\ \A i \in DOMAIN meta :
              meta[i][1] # "connection_id" =>
                  /\ Count(ret[1], meta[i][1]) = 1
                  /\ \E j \in DOMAIN ret[1] : ret[1][j] = meta[i]
        /\ ret[2] = args /\ ret[3] = kwargs

\* meta carries another connection_id than the one given, among other keys
C6_Witness ==
    /\ Done("Call")
    /\ Len(meta) = 3
    /\ \E i \in DOMAIN meta :
          /\ meta[i][1] = "connection_id"
          /\ meta[i][2] # JString(connection_id)
    /\ Len(ret[1]) = 3

\* where the entry with key k is in the Map m
IndexOf(m, k) == CHOOSE i \in DOMAIN m : m[i][1] = k

C9_AuthFrame ==
    Done("Auth") =>
        /\ Len(ret) = 3
        /\ ret[1].kind = "Object"
        /\ ret[1].obj = << <<"connection_id", JString(connection_id)>> >>
        /\ ret[2].kind = "Array" /\ ret[2].arr = <<>>
        /\ Len(ret[3]) = 3
        /\ ret[3][1][1] = "http_cookie"
        /\ ret[3][2][1] = "http_authorization"
        /\ ret[3][3][1] = "url_querystring"
        /\ ret[3][1][2] = IF auth_data.http_cookie.some
                          THEN JString(auth_data.http_cookie.val)
                          ELSE JNull
        /\ ret[3][2][2] = IF auth_data.http_authorization.some
                          THEN JString(auth_data.http_authorization.val)
                          ELSE JNull
        /\ ret[3][3][2] = JString(auth_data.url_querystring)

\* a cookie that is the empty string, no authorization
C9_Witness ==
    /\ Done("Auth")
    /\ auth_data.http_cookie = Some(<<>>)
    /\ ~auth_data.http_authorization.some
    /\ ret[3][1][2].kind = "String" /\ ret[3][2][2].kind = "Null"

\* C10: when extra is not a map (null, boolean, number, string, array),
\* MetaWithExtra emits the entries of meta, unchanged and in meta's order,
\* and nothing else.
C10_NonMapExtraIsIgnored ==
    (Done("MetaWithExtra") /\ extra.kind # "Object") => ret = meta

\* extra is an array that holds a map with a key of meta
C10_Witness ==
    /\ Done("MetaWithExtra")
    /\ extra.kind = "Array" /\ extra.arr # <<>>
    /\ extra.arr[1].kind = "Object"
    /\ HasKey(meta, "connection_id") /\ Len(meta) = 3
    /\ ret = meta

====
